---- MODULE Spec2Model ----
(***************************************************************************)
(* Model of the Thor Pi voice client (src/pi): the HTTP clients            *)
(* (client.py, meta_runner_client.py), the remote/local recognizer         *)
(* (stt.py), the synthesizer and cues (tts.py) and the orchestrator with   *)
(* its two driving loops (main.py).                                        *)
(*                                                                         *)
(* Python values are modelled as tagged records [t, s] so that truthiness, *)
(* key absence ("missing"), None/null and non-boolean results stay         *)
(* distinguishable.  Texts are sequences of characters so that strip() and *)
(* len() are computed, not assumed.                                        *)
(***************************************************************************)
EXTENDS Integers, Sequences, FiniteSets, TLC

\* Longest text (raw transcript, message, reply) the environment produces.
MaxLen == 2
\* Longest captured audio buffer, in samples.
MaxSamples == 2

----------------------------------------------------------------------------
(* Texts and str.strip()                                                   *)

Chars == {" ", "a"}

RECURSIVE SeqsUpTo(_)
SeqsUpTo(n) ==
    IF n = 0 THEN {<<>>}
    ELSE LET shorter == SeqsUpTo(n - 1)
         IN  shorter \cup {Append(s, c) : s \in {x \in shorter : Len(x) = n - 1}, c \in Chars}

Texts == SeqsUpTo(MaxLen)

\* Messages a caller hands to send_message (the empty one is not rejected locally).
Messages == {<<>>, <<"a", "a">>}

IsSpace(c) == c = " "

RECURSIVE LStrip(_)
LStrip(s) == IF s # <<>> /\ IsSpace(Head(s)) THEN LStrip(Tail(s)) ELSE s

RECURSIVE RStrip(_)
RStrip(s) ==
    IF s # <<>> /\ IsSpace(s[Len(s)]) THEN RStrip(SubSeq(s, 1, Len(s) - 1)) ELSE s

\* str.strip(): leading and trailing whitespace removed.
Strip(s) == RStrip(LStrip(s))

----------------------------------------------------------------------------
(* Python / JSON values of the session identifier and the health fields.   *)
(* t is the type tag, s the payload as a string.  "missing" stands for a   *)
(* key that is absent from the JSON object.                                *)

NoneV == [t |-> "null", s |-> ""]
MissingV == [t |-> "missing", s |-> ""]
StrV(x) == [t |-> "str", s |-> x]
BoolV(b) == [t |-> "bool", s |-> IF b THEN "true" ELSE "false"]
NumV(x) == [t |-> "num", s |-> x]

\* Python truthiness: None, False, 0 and "" are falsy.
Truthy(v) ==
    CASE v.t = "null" -> FALSE
      [] v.t = "missing" -> FALSE
      [] v.t = "bool" -> v.s = "true"
      [] v.t = "num" -> v.s # "0"
      [] v.t = "str" -> v.s # ""

\* Identifiers the backend may return under "sessionId" (opaque to the client).
SessionValues == {StrV("abc123"), StrV("xyz789"), StrV(""), NoneV}

\* Reply values: s is a text (sequence of characters).
MissingR == [t |-> "missing", s |-> <<>>]
NullR == [t |-> "null", s |-> <<>>]
NumR == [t |-> "num", s |-> <<>>]
StrR(x) == [t |-> "str", s |-> x]
ReplyValues == {MissingR, NullR, NumR} \cup {StrR(x) : x \in Texts}

ReplyFalsyNever(r) == FALSE

\* `not reply` in Python for the reply values above (the number is non-zero).
ReplyFalsy(r) == r.t \in {"missing", "null"} \/ (r.t = "str" /\ r.s = <<>>)

----------------------------------------------------------------------------
(* Outcomes of one HTTP exchange, as the requests library reports them.    *)

TransportFailures == {"refused", "timeout", "http_error", "bad_json"}
\* JSON bodies that parse but are not objects.
NonObjectShapes == {"array", "null"}

ChatOutcomes ==
    {[kind |-> k, shape |-> "none", reply |-> MissingR, sessionId |-> MissingV] :
        k \in TransportFailures}
    \cup {[kind |-> "ok", shape |-> sh, reply |-> MissingR, sessionId |-> MissingV] :
        sh \in NonObjectShapes}
    \cup {[kind |-> "ok", shape |-> "object", reply |-> r, sessionId |-> sid] :
        r \in ReplyValues, sid \in SessionValues \cup {MissingV}}

StatusValues == {MissingV, StrV("ok"), StrV("error"), NoneV}
McpReadyValues ==
    {MissingV, BoolV(TRUE), BoolV(FALSE), StrV("yes"), StrV(""), NumV("1"), NumV("0"), NoneV}

HealthOutcomes ==
    {[kind |-> k, shape |-> "none", status |-> MissingV, mcpReady |-> MissingV] :
        k \in TransportFailures}
    \cup {[kind |-> "ok", shape |-> sh, status |-> MissingV, mcpReady |-> MissingV] :
        sh \in NonObjectShapes}
    \cup {[kind |-> "ok", shape |-> "object", status |-> st, mcpReady |-> m] :
        st \in StatusValues, m \in McpReadyValues}

----------------------------------------------------------------------------
(* ThorAgentClient (client.py)                                             *)

\* client.py:44-51: the request body; sessionId is attached only when the
\* stored identifier is truthy and reset is not requested.
BuildPayloadAlways(sid, message, reset) ==
    [message |-> message, reset |-> reset, sessionId |-> sid]

BuildPayload(sid, message, reset) ==
    IF Truthy(sid) /\ ~reset
    THEN [message |-> message, reset |-> reset, sessionId |-> sid]
    ELSE [message |-> message, reset |-> reset]

\* client.py:56-64: requests.post, raise_for_status and response.json raise.
ExchangeRaises(out) == out.kind # "ok"

\* client.py:67: `"sessionId" in data` raises TypeError when data is None.
MembershipRaises(out) == out.shape = "null"

HasSessionKey(out) == out.shape = "object" /\ out.sessionId.t # "missing"

StoreSessionOrClear(sid, out) == IF HasSessionKey(out) THEN out.sessionId ELSE NoneV

\* client.py:66-69: the returned identifier replaces the stored one.
StoreSessionNever(sid, out) == sid

StoreSession(sid, out) == IF HasSessionKey(out) THEN out.sessionId ELSE sid

\* client.py:71: data.get('reply', '')[:50] raises for a list body (no .get)
\* and for a reply that is None or a number (not subscriptable).
LogReplyRaises(out) == out.shape # "object" \/ out.reply.t \in {"null", "num"}

\* A send_message that tries the exchange a second time when it failed.
send_message_retry(sid, message, reset, out) ==
    [payload |-> BuildPayload(sid, message, reset),
     requests |-> IF ExchangeRaises(out) THEN 2 ELSE 1, out |-> out,
     pre |-> sid, message |-> message, reset |-> reset,
     raised |-> ExchangeRaises(out) \/ MembershipRaises(out) \/ LogReplyRaises(out),
     session_id |-> IF ExchangeRaises(out) \/ MembershipRaises(out)
                    THEN sid ELSE StoreSession(sid, out)]

\* client.py:28-86: one send_message call against exchange outcome `out`.
\* Every except clause re-raises, so a failure reaches the caller.
send_message(sid, message, reset, out) ==
    LET payload == BuildPayload(sid, message, reset)
        base == [payload |-> payload, requests |-> 1, out |-> out,
                 pre |-> sid, message |-> message, reset |-> reset]
    IN  IF ExchangeRaises(out) \/ MembershipRaises(out)
        THEN base @@ [raised |-> TRUE, session_id |-> sid]
        ELSE LET stored == StoreSession(sid, out)
             IN  IF LogReplyRaises(out)
                 THEN base @@ [raised |-> TRUE, session_id |-> stored]
                 ELSE base @@ [raised |-> FALSE, session_id |-> stored]

reset_conversation_keep(sid) == sid

\* client.py:88-91
reset_conversation(sid) == NoneV

\* Python `a and b`: a when a is falsy, otherwise b.
PyAnd(a, b) == IF Truthy(a) THEN b ELSE a

\* client.py:103-105 / meta_runner_client.py:96-98, and data.get on a body
\* that is not an object (AttributeError).
HealthBodyRaises(out) == out.kind # "ok" \/ out.shape # "object"

\* data.get("mcpReady", False)
GetMcpReady(out) == IF out.mcpReady.t = "missing" THEN BoolV(FALSE) ELSE out.mcpReady

\* client.py:107
AgentIsHealthy(out) == PyAnd(BoolV(out.status = StrV("ok")), GetMcpReady(out))

\* meta_runner_client.py:100
MetaIsHealthy(out) == BoolV(out.status = StrV("ok"))

\* The try body of health_check: raised, or the value of is_healthy.
AgentHealthTry(out) ==
    IF HealthBodyRaises(out)
    THEN [raised |-> TRUE, value |-> BoolV(FALSE)]
    ELSE [raised |-> FALSE, value |-> AgentIsHealthy(out)]

MetaHealthTry(out) ==
    IF HealthBodyRaises(out)
    THEN [raised |-> TRUE, value |-> BoolV(FALSE)]
    ELSE [raised |-> FALSE, value |-> MetaIsHealthy(out)]

\* client.py:93-118: `except Exception: return False`.
AgentHealthNoExcept(out) == AgentHealthTry(out)

ThorAgentClient_health_check(out) ==
    LET r == AgentHealthTry(out)
    IN  IF r.raised THEN [raised |-> FALSE, value |-> BoolV(FALSE)] ELSE r

\* meta_runner_client.py:86-111
MetaRunnerClient_health_check(out) ==
    LET r == MetaHealthTry(out)
    IN  IF r.raised THEN [raised |-> FALSE, value |-> BoolV(FALSE)] ELSE r

----------------------------------------------------------------------------
(* MetaRunnerClient.send_message (meta_runner_client.py)                   *)

\* Routing modes of the meta-runner.
Modes == {"auto", "thor"}

\* POST /chat of the meta-runner: the `message` field of the answer.
MetaChatOutcomes ==
    {[kind |-> k, shape |-> "none", message |-> MissingR] : k \in TransportFailures}
    \cup {[kind |-> "ok", shape |-> sh, message |-> MissingR] : sh \in NonObjectShapes}
    \cup {[kind |-> "ok", shape |-> "object", message |-> r] : r \in ReplyValues}

\* meta_runner_client.py:62-69: data.get raises on a body that is not an
\* object, message[:100] on a message that is None or a number.
MetaLogRaises(out) == out.shape # "object" \/ out.message.t \in {"null", "num"}

\* meta_runner_client.py:27-84: one request; every except clause re-raises.
MetaRunnerClient_send_message(text, mode, out) ==
    [payload |-> [text |-> text, mode |-> mode], requests |-> 1, out |-> out,
     raised |-> ExchangeRaises(out) \/ MetaLogRaises(out)]

----------------------------------------------------------------------------
(* WhisperSTT (stt.py)                                                     *)

\* stt.py:159-162: the finally clause unlinks the file when it exists.
CleanupTmp(exists) == FALSE

\* Points at which the remote strategy can fail: creating the temporary file,
\* sf.write, open(), the transcription request, transcript.text.strip().
ApiFailPoints == {"none", "create", "write", "open", "request", "strip"}

\* stt.py:133-166: raised?, the returned text, and whether the temporary file
\* is still on disk when the call ends.  sf.write (line 143) runs after the
\* file was created and before the try/finally of line 145 is entered.
transcribe_api(raw, failAt) ==
    IF failAt = "create"
    THEN [raised |-> TRUE, text |-> <<>>, created |-> FALSE, tmpExists |-> FALSE]
    ELSE IF failAt = "write"
    THEN [raised |-> TRUE, text |-> <<>>, created |-> TRUE, tmpExists |-> TRUE]
    ELSE IF failAt \in {"open", "request", "strip"}
    THEN [raised |-> TRUE, text |-> <<>>, created |-> TRUE, tmpExists |-> CleanupTmp(TRUE)]
    ELSE [raised |-> FALSE, text |-> Strip(raw), created |-> TRUE, tmpExists |-> CleanupTmp(TRUE)]

LocalFailPoints == {"none", "engine", "strip"}

\* stt.py:96-131: no file is involved.
transcribe_local(raw, failAt) ==
    IF failAt # "none"
    THEN [raised |-> TRUE, text |-> <<>>, created |-> FALSE, tmpExists |-> FALSE]
    ELSE [raised |-> FALSE, text |-> Strip(raw), created |-> FALSE, tmpExists |-> FALSE]

\* stt.py:80-94
transcribe_audio(mode, raw, failAt) ==
    IF mode = "local" THEN transcribe_local(raw, failAt) ELSE transcribe_api(raw, failAt)

FailPoints(mode) == IF mode = "local" THEN LocalFailPoints ELSE ApiFailPoints

----------------------------------------------------------------------------
(* TTS and BeepGenerator (tts.py)                                          *)

NOTHING_HEARD == "I didn't hear anything. Please try again."
NOT_UNDERSTOOD == "Sorry, I couldn't understand that."
NOT_CAUGHT == "I didn't catch that. Please speak clearly."
NOT_REACHED == "Sorry, I couldn't reach the workout server."
NO_RESPONSE == "Sorry, I didn't get a response."

\* main.py:135, 144, 149, 159, 164: the texts process_voice_interaction speaks
\* on its own account.
FixedMessages == {NOTHING_HEARD, NOT_UNDERSTOOD, NOT_CAUGHT, NOT_REACHED, NO_RESPONSE}

\* What is handed to tts.speak: one of the fixed messages, or a reply text.
FixedU(m) == [kind |-> "fixed", msg |-> m, body |-> <<>>]
ReplyU(r) == [kind |-> "reply", msg |-> "", body |-> r.s]

IsBlankNever(u) == FALSE

\* tts.py:76: `not text or not text.strip()`.
IsBlank(u) == u.kind = "reply" /\ Strip(u.body) = <<>>

\* tts.py:68-89: a blank text is a no-op; otherwise the engine runs and its
\* failure is re-raised.
speak(u, engineFails) ==
    IF IsBlank(u)
    THEN [raised |-> FALSE, entry |-> u @@ [audible |-> FALSE]]
    ELSE [raised |-> engineFails, entry |-> u @@ [audible |-> ~engineFails]]

\* tts.py:132-150: a cue; a playback failure is logged and swallowed.
play_beep(name, fails) == [cue |-> name, played |-> ~fails]

----------------------------------------------------------------------------
(* Audio buffers (main.py:96-110), samples in thousandths of full scale.   *)

SampleValues == {-10, 0, 9}

RECURSIVE BuffersUpTo(_)
BuffersUpTo(n) ==
    IF n = 0 THEN {<<>>}
    ELSE LET shorter == BuffersUpTo(n - 1)
         IN  shorter \cup
             {Append(s, c) : s \in {x \in shorter : Len(x) = n - 1}, c \in SampleValues}

Buffers == BuffersUpTo(MaxSamples)

Abs(x) == IF x < 0 THEN -x ELSE x

RECURSIVE MaxAbs(_)
\* np.max(np.abs(audio_data)) of a non-empty buffer.
MaxAbs(b) ==
    IF Len(b) = 1 THEN Abs(b[1])
    ELSE LET m == MaxAbs(Tail(b)) IN IF Abs(b[1]) > m THEN Abs(b[1]) ELSE m

\* main.py:133: 0.01, in thousandths.
SILENCE_THRESHOLD == 10

\* main.py:133: np.max raises ValueError on an empty buffer.
PeakRaises(b) == b = <<>>

IsSilentOnlyZero(b) == MaxAbs(b) = 0

\* main.py:133
IsSilent(b) == MaxAbs(b) < SILENCE_THRESHOLD

\* main.py:147: 2, the minimum trimmed length of a transcript.
MIN_TEXT_LEN == 2

TooShortOnlyEmpty(t) == t = <<>>

\* main.py:147: `not text or len(text.strip()) < 2`.
TooShort(t) == t = <<>> \/ Len(Strip(t)) < MIN_TEXT_LEN

----------------------------------------------------------------------------
VARIABLES
    session_id,   \* ThorAgentClient.session_id
    lastSend,     \* the most recent client call, when it was a send_message
    lastHealth,   \* the most recent client call, when it was a health_check
    returned,     \* the identifier most recently returned by the backend
    pc,           \* position of the process in main.py
    run_mode,     \* "interactive" or "continuous" (main.py:330-333)
    interval,     \* --interval of the continuous mode
    stt_mode,     \* WhisperSTT.mode
    running,      \* ThorPiClient.running
    audio,        \* the audio buffer of the current cycle
    text,         \* the transcript of the current cycle
    reply,        \* the reply of the current cycle
    spoken,       \* the tts.speak calls of the current cycle
    cues,         \* the cues of the current cycle
    sttLog,       \* the recognizer calls of the cycle: peak of the buffer, raised?
    agentCalls,   \* send_message calls of the current cycle
    tmpLeft,      \* the last transcribe_audio call left its temporary file
    exc,          \* the exception that left run_interactive / run_continuous
    enteredLoop,  \* the driving loop was entered
    endedBy,      \* why the driving loop ended
    healthChecks, \* health checks made by the driving loop
    exitStatus    \* the exit status of the process

clientVars == <<session_id, lastSend, lastHealth, returned>>

cycleVars == <<audio, text, reply, spoken, cues, sttLog, agentCalls>>

orchVars ==
    <<pc, run_mode, interval, stt_mode, running, audio, text, reply, spoken, cues,
      sttLog, agentCalls, tmpLeft, exc, enteredLoop, endedBy, healthChecks, exitStatus>>

vars == <<clientVars, orchVars>>

NoSend ==
    [op |-> "none", payload |-> [message |-> <<>>, reset |-> FALSE], requests |-> 0,
     out |-> [kind |-> "timeout", shape |-> "none", reply |-> MissingR, sessionId |-> MissingV],
     pre |-> NoneV, message |-> <<>>, reset |-> FALSE, raised |-> FALSE, session_id |-> NoneV]

NoHealth ==
    [op |-> "none", raised |-> FALSE, value |-> BoolV(FALSE),
     out |-> [kind |-> "timeout", shape |-> "none", status |-> MissingV, mcpReady |-> MissingV]]

NoAudio == [present |-> FALSE, samples |-> <<>>]

\* main.py:38-80 and client.py:16-26: a constructed ThorPiClient; nothing
\* recorded, no identifier stored, running is False.
OrchInit ==
    /\ pc = "init"
    /\ run_mode = "none"
    /\ interval = 0
    /\ stt_mode \in {"local", "api"}
    /\ running = FALSE
    /\ audio = NoAudio
    /\ text = <<>>
    /\ reply = MissingR
    /\ spoken = <<>>
    /\ cues = <<>>
    /\ sttLog = <<>>
    /\ agentCalls = 0
    /\ tmpLeft = FALSE
    /\ exc = "none"
    /\ enteredLoop = FALSE
    /\ endedBy = "none"
    /\ healthChecks = 0
    /\ exitStatus = -1

ClientInit ==
    /\ session_id = NoneV
    /\ lastSend = NoSend
    /\ lastHealth = NoHealth
    /\ returned = NoneV

Init == ClientInit /\ OrchInit

----------------------------------------------------------------------------
(* The clients used as a library (client.py and meta_runner_client.py's    *)
(* __main__ blocks, test-meta-runner.py): any sequence of calls.           *)

\* The identifier a reply carries, if it carries one.
Returned(prev, out) ==
    IF out.kind = "ok" /\ out.shape = "object" /\ out.sessionId.t # "missing"
    THEN out.sessionId ELSE prev

\* A caller invokes ThorAgentClient.send_message(message, reset).
ClientSend ==
    \E message \in Messages, reset \in BOOLEAN, out \in ChatOutcomes :
        LET r == send_message(session_id, message, reset, out)
        IN  /\ session_id' = r.session_id
            /\ lastSend' = r @@ [op |-> "send"]
            /\ lastHealth' = NoHealth
            /\ returned' = Returned(returned, out)
            /\ UNCHANGED orchVars

\* A caller invokes ThorAgentClient.reset_conversation().
ClientReset ==
    /\ session_id' = reset_conversation(session_id)
    /\ lastSend' = [NoSend EXCEPT !.op = "reset", !.pre = session_id]
    /\ lastHealth' = NoHealth
    /\ returned' = NoneV
    /\ UNCHANGED orchVars

\* A caller invokes ThorAgentClient.health_check().
ClientAgentHealth ==
    \E out \in HealthOutcomes :
        /\ lastHealth' = ThorAgentClient_health_check(out) @@ [op |-> "agent", out |-> out]
        /\ lastSend' = NoSend
        /\ UNCHANGED <<session_id, returned>>
        /\ UNCHANGED orchVars

\* A caller invokes MetaRunnerClient.health_check().
ClientMetaHealth ==
    \E out \in HealthOutcomes :
        /\ lastHealth' = MetaRunnerClient_health_check(out) @@ [op |-> "meta", out |-> out]
        /\ lastSend' = NoSend
        /\ UNCHANGED <<session_id, returned>>
        /\ UNCHANGED orchVars

\* A caller invokes MetaRunnerClient.send_message(text, mode).
ClientMetaSend ==
    \E message \in Messages, mode \in Modes, out \in MetaChatOutcomes :
        /\ lastSend' = MetaRunnerClient_send_message(message, mode, out) @@ [op |-> "meta_send"]
        /\ lastHealth' = NoHealth
        /\ UNCHANGED <<session_id, returned>>
        /\ UNCHANGED orchVars

ClientNext ==
    \/ ClientSend
    \/ ClientReset
    \/ ClientAgentHealth
    \/ ClientMetaHealth
    \/ ClientMetaSend

ClientSpec == Init /\ [][ClientNext]_vars

----------------------------------------------------------------------------
(* ThorPiClient (main.py): the driving loops and one interaction cycle.    *)

ClearCycle ==
    /\ audio' = NoAudio
    /\ text' = <<>>
    /\ reply' = MissingR
    /\ spoken' = <<>>
    /\ cues' = <<>>
    /\ sttLog' = <<>>
    /\ agentCalls' = 0
    /\ lastSend' = NoSend

SpeakAndEndNoCue(u, engineFails, beepFails) ==
    LET r == speak(u, engineFails)
    IN  /\ spoken' = Append(spoken, r.entry)
        /\ cues' = cues
        /\ pc' = "cycle_end"

\* main.py:135-178: a tts.speak call that is followed by `return` (or is the
\* last statement); if it raises, the outer handler of lines 176-178 plays
\* the error cue.  Either way the cycle is over.
SpeakAndEnd(u, engineFails, beepFails) ==
    LET r == speak(u, engineFails)
    IN  /\ spoken' = Append(spoken, r.entry)
        /\ cues' = IF r.raised THEN Append(cues, play_beep("error", beepFails)) ELSE cues
        /\ pc' = "cycle_end"

\* main.py:180-184 (interactive) and main.py:330-331
RunInteractive ==
    /\ pc = "init"
    /\ pc' = "health"
    /\ run_mode' = "interactive"
    /\ running' = TRUE
    /\ UNCHANGED <<clientVars, interval, stt_mode, cycleVars, tmpLeft, exc, enteredLoop,
                   endedBy, healthChecks, exitStatus>>

\* main.py:219-226 (continuous) and main.py:332-333
RunContinuous ==
    /\ pc = "init"
    /\ \E i \in {-1, 0, 1} : interval' = i
    /\ pc' = "health"
    /\ run_mode' = "continuous"
    /\ running' = TRUE
    /\ UNCHANGED <<clientVars, stt_mode, cycleVars, tmpLeft, exc, enteredLoop,
                   endedBy, healthChecks, exitStatus>>

HealthRefusedNever(h) == FALSE

\* main.py:198 / 239: `if not self.agent.health_check()`.
HealthRefused(h) == ~Truthy(h.value)

\* main.py:197-203 / 238-244: the one-time health check.
HealthGate ==
    /\ pc = "health"
    /\ \E out \in HealthOutcomes :
        LET h == ThorAgentClient_health_check(out)
        IN  /\ lastHealth' = h @@ [op |-> "agent", out |-> out]
            /\ healthChecks' = healthChecks + 1
            /\ IF HealthRefused(h)
               THEN /\ pc' = "returned"
                    /\ endedBy' = "unhealthy"
                    /\ UNCHANGED enteredLoop
               ELSE /\ pc' = "loop"
                    /\ enteredLoop' = TRUE
                    /\ UNCHANGED endedBy
    /\ UNCHANGED <<session_id, lastSend, returned, run_mode, interval, stt_mode, running,
                   cycleVars, tmpLeft, exc, exitStatus>>

\* main.py:206 / 247: `while self.running`.
LoopTop ==
    /\ pc = "loop"
    /\ IF running
       THEN pc' = IF run_mode = "interactive" THEN "input" ELSE "record"
       ELSE pc' = "returned"
    /\ UNCHANGED <<clientVars, run_mode, interval, stt_mode, running, cycleVars, tmpLeft,
                   exc, enteredLoop, endedBy, healthChecks, exitStatus>>

\* main.py:208: input() returns, or raises EOFError when stdin is closed.  No
\* handler of run_interactive catches it (only KeyboardInterrupt, line 215).
WaitInput ==
    /\ pc = "input"
    /\ \E eof \in BOOLEAN :
        IF eof
        THEN /\ pc' = "raised"
             /\ exc' = "Exception"
             /\ endedBy' = "exception"
        ELSE /\ pc' = "record"
             /\ UNCHANGED <<exc, endedBy>>
    /\ UNCHANGED <<clientVars, run_mode, interval, stt_mode, running, cycleVars, tmpLeft,
                   enteredLoop, healthChecks, exitStatus>>

IsNoneNever(a) == FALSE

\* main.py:128: `if audio_data is None`.
IsNone(a) == ~a.present

\* main.py:82-115 and 127-130: record_audio; a capture exception plays the
\* error cue and the cycle ends.
Record ==
    /\ pc = "record"
    /\ \E startFails \in BOOLEAN, endFails \in BOOLEAN, captureRaises \in BOOLEAN,
          b \in Buffers :
        IF captureRaises
        THEN /\ cues' = cues \o <<play_beep("start", startFails), play_beep("error", endFails)>>
             /\ audio' = NoAudio
             /\ pc' = IF IsNone(NoAudio) THEN "cycle_end" ELSE "gate"
        ELSE /\ cues' = cues \o <<play_beep("start", startFails), play_beep("stop", endFails)>>
             /\ audio' = [present |-> TRUE, samples |-> b]
             /\ pc' = "gate"
    /\ UNCHANGED <<clientVars, run_mode, interval, stt_mode, running, text, reply, spoken,
                   sttLog, agentCalls, tmpLeft, exc, enteredLoop, endedBy, healthChecks,
                   exitStatus>>

\* main.py:132-136: the silence gate.
SilenceGate ==
    /\ pc = "gate"
    /\ \E engineFails \in BOOLEAN, beepFails \in BOOLEAN :
        IF PeakRaises(audio.samples)
        THEN /\ cues' = Append(cues, play_beep("error", beepFails))
             /\ pc' = "cycle_end"
             /\ UNCHANGED spoken
        ELSE IF IsSilent(audio.samples)
        THEN SpeakAndEnd(FixedU(NOTHING_HEARD), engineFails, beepFails)
        ELSE /\ pc' = "transcribe"
             /\ UNCHANGED <<spoken, cues>>
    /\ UNCHANGED <<clientVars, run_mode, interval, stt_mode, running, audio, text, reply,
                   sttLog, agentCalls, tmpLeft, exc, enteredLoop, endedBy, healthChecks,
                   exitStatus>>

\* main.py:138-145: the recognizer is invoked and consumes the buffer; on
\* failure an apology is spoken.
Transcribe ==
    /\ pc = "transcribe"
    /\ \E raw \in Texts, failAt \in FailPoints(stt_mode),
          engineFails \in BOOLEAN, beepFails \in BOOLEAN :
        LET r == transcribe_audio(stt_mode, raw, failAt)
        IN  /\ sttLog' = Append(sttLog, [peak |-> MaxAbs(audio.samples), raised |-> r.raised])
            /\ tmpLeft' = r.tmpExists
            /\ audio' = NoAudio
            /\ IF r.raised
               THEN /\ SpeakAndEnd(FixedU(NOT_UNDERSTOOD), engineFails, beepFails)
                    /\ UNCHANGED text
               ELSE /\ text' = r.text
                    /\ pc' = "check_text"
                    /\ UNCHANGED <<spoken, cues>>
    /\ UNCHANGED <<clientVars, run_mode, interval, stt_mode, running, reply,
                   agentCalls, exc, enteredLoop, endedBy, healthChecks, exitStatus>>

\* main.py:147-152
CheckText ==
    /\ pc = "check_text"
    /\ \E engineFails \in BOOLEAN, beepFails \in BOOLEAN :
        IF TooShort(text)
        THEN SpeakAndEnd(FixedU(NOT_CAUGHT), engineFails, beepFails)
        ELSE /\ pc' = "dispatch"
             /\ UNCHANGED <<spoken, cues>>
    /\ UNCHANGED <<clientVars, run_mode, interval, stt_mode, running, audio, text, reply,
                   sttLog, agentCalls, tmpLeft, exc, enteredLoop, endedBy, healthChecks,
                   exitStatus>>

\* main.py:158: response.get("reply", "")
GetReply(out) == IF out.reply.t = "missing" THEN StrR(<<>>) ELSE out.reply

\* main.py:158: .get raises AttributeError on a body that is not an object.
GetReplyRaises(out) == out.shape # "object"

DispatchRaisedOnlyTransport(r, out) == out.kind # "ok"

\* main.py:156-159: what the `except Exception` of the dispatch stage catches.
DispatchRaised(r, out) == r.raised \/ GetReplyRaises(out)

\* main.py:154-162: the backend is called; on failure the connectivity
\* apology is spoken.
Dispatch ==
    /\ pc = "dispatch"
    /\ \E out \in ChatOutcomes, engineFails \in BOOLEAN, beepFails \in BOOLEAN :
        LET r == send_message(session_id, text, FALSE, out)
        IN  /\ session_id' = r.session_id
            /\ lastSend' = r @@ [op |-> "send"]
            /\ returned' = Returned(returned, out)
            /\ agentCalls' = agentCalls + r.requests
            /\ lastHealth' = NoHealth
            /\ IF DispatchRaised(r, out)
               THEN /\ SpeakAndEnd(FixedU(NOT_REACHED), engineFails, beepFails)
                    /\ UNCHANGED reply
               ELSE /\ reply' = GetReply(out)
                    /\ pc' = "check_reply"
                    /\ UNCHANGED <<spoken, cues>>
    /\ UNCHANGED <<run_mode, interval, stt_mode, running, audio, text, sttLog,
                   tmpLeft, exc, enteredLoop, endedBy, healthChecks, exitStatus>>

\* main.py:164-169
CheckReply ==
    /\ pc = "check_reply"
    /\ \E engineFails \in BOOLEAN, beepFails \in BOOLEAN :
        IF ReplyFalsy(reply)
        THEN SpeakAndEnd(FixedU(NO_RESPONSE), engineFails, beepFails)
        ELSE /\ pc' = "respond"
             /\ UNCHANGED <<spoken, cues>>
    /\ UNCHANGED <<clientVars, run_mode, interval, stt_mode, running, audio, text, reply,
                   sttLog, agentCalls, tmpLeft, exc, enteredLoop, endedBy, healthChecks,
                   exitStatus>>

\* main.py:171-172
Respond ==
    /\ pc = "respond"
    /\ \E engineFails \in BOOLEAN, beepFails \in BOOLEAN :
        SpeakAndEnd(ReplyU(reply), engineFails, beepFails)
    /\ UNCHANGED <<clientVars, run_mode, interval, stt_mode, running, audio, text, reply,
                   sttLog, agentCalls, tmpLeft, exc, enteredLoop, endedBy, healthChecks,
                   exitStatus>>

\* main.py:213 (print) or main.py:249 (time.sleep, which raises ValueError
\* for a negative interval; run_continuous catches only KeyboardInterrupt).
CycleEnd ==
    /\ pc = "cycle_end"
    /\ ClearCycle
    /\ IF run_mode = "continuous" /\ interval < 0
       THEN /\ pc' = "raised"
            /\ exc' = "Exception"
            /\ endedBy' = "exception"
       ELSE /\ pc' = "loop"
            /\ UNCHANGED <<exc, endedBy>>
    /\ UNCHANGED <<session_id, lastHealth, returned, run_mode, interval, stt_mode, running,
                   tmpLeft, enteredLoop, healthChecks, exitStatus>>

InLoop ==
    pc \in {"loop", "input", "record", "gate", "transcribe", "check_text", "dispatch",
            "check_reply", "respond", "cycle_end"}

\* KeyboardInterrupt.  Inside the try of main.py:205-217 / 246-253 it is
\* re-raised by process_voice_interaction (line 174) and caught by the loop,
\* which clears running and returns.  During the health check (line 198 /
\* 239, before the try) nothing catches it.
Interrupt ==
    /\ \/ /\ InLoop
          /\ running' = FALSE
          /\ pc' = "returned"
          /\ endedBy' = "interrupt"
          /\ UNCHANGED exc
       \/ /\ pc = "health"
          /\ pc' = "raised"
          /\ exc' = "KeyboardInterrupt"
          /\ endedBy' = "interrupt"
          /\ UNCHANGED running
    /\ UNCHANGED <<clientVars, run_mode, interval, stt_mode, cycleVars, tmpLeft,
                   enteredLoop, healthChecks, exitStatus>>

\* main.py:318-337: run_* returned (exit 0), an Exception is caught and
\* turned into sys.exit(1), an uncaught KeyboardInterrupt ends the process
\* with the interrupt status.
MainExit ==
    /\ pc \in {"returned", "raised"}
    /\ pc' = "exited"
    /\ exitStatus' = IF pc = "returned" THEN 0 ELSE IF exc = "Exception" THEN 1 ELSE 130
    /\ UNCHANGED <<clientVars, run_mode, interval, stt_mode, running, cycleVars, tmpLeft,
                   exc, enteredLoop, endedBy, healthChecks>>

Next ==
    \/ RunInteractive
    \/ RunContinuous
    \/ HealthGate
    \/ LoopTop
    \/ WaitInput
    \/ Record
    \/ SilenceGate
    \/ Transcribe
    \/ CheckText
    \/ Dispatch
    \/ CheckReply
    \/ Respond
    \/ CycleEnd
    \/ Interrupt
    \/ MainExit

\* The voice client as main() runs it.
Spec == Init /\ [][Next]_vars

----------------------------------------------------------------------------
(* Properties of the clients, checked under ClientSpec.                    *)

SentWithReset == lastSend.op = "send" /\ lastSend.reset
SentWithoutReset == lastSend.op = "send" /\ ~lastSend.reset
ReplyCarriesSession ==
    /\ lastSend.out.kind = "ok"
    /\ lastSend.out.shape = "object"
    /\ lastSend.out.sessionId.t # "missing"

\* C1: after a send_message call with reset=true, whatever was stored before
\* (none or any identifier), the request body has no sessionId key, and a
\* sessionId carried by the reply is what is stored now.
C1_ResetOmitsSessionAndReplyReplaces ==
    SentWithReset =>
        /\ "sessionId" \notin DOMAIN lastSend.payload
        /\ ReplyCarriesSession => session_id = lastSend.out.sessionId

C1_Witness ==
    /\ SentWithReset
    /\ lastSend.pre = StrV("abc123")
    /\ lastSend.out.sessionId = StrV("xyz789")
    /\ session_id = StrV("xyz789")

\* C2 as stated: with reset=false the body has a sessionId key exactly when
\* an identifier is stored (anything but None), the attached value is the
\* stored one, and a returned sessionId is what is stored afterwards.
C2_AttachedIffStored ==
    SentWithoutReset =>
        /\ ("sessionId" \in DOMAIN lastSend.payload) <=> (lastSend.pre # NoneV)
        /\ ("sessionId" \in DOMAIN lastSend.payload) =>
               lastSend.payload.sessionId = lastSend.pre
        /\ ReplyCarriesSession => session_id = lastSend.out.sessionId

\* C2 as amended: with reset=false the body has a sessionId key exactly when
\* the stored identifier is neither None nor the empty string, the attached
\* value is the stored one, a returned sessionId is what is stored
\* afterwards, and at all times the one stored identifier is the one most
\* recently returned (none after construction or reset_conversation).
C2_AttachedIffNonEmptyStored ==
    /\ SentWithoutReset =>
        /\ ("sessionId" \in DOMAIN lastSend.payload) <=>
               (lastSend.pre # NoneV /\ lastSend.pre # StrV(""))
        /\ ("sessionId" \in DOMAIN lastSend.payload) =>
               lastSend.payload.sessionId = lastSend.pre
        /\ ReplyCarriesSession => session_id = lastSend.out.sessionId
    /\ session_id = returned

C2_Witness ==
    /\ SentWithoutReset
    /\ lastSend.pre = StrV("abc123")
    /\ "sessionId" \in DOMAIN lastSend.payload
    /\ lastSend.payload.sessionId = StrV("abc123")
    /\ ~lastSend.raised
    /\ lastSend.out.sessionId = StrV("xyz789")
    /\ session_id = StrV("xyz789")

HealthChecked == lastHealth.op \in {"agent", "meta"}

\* Connection refused, timeout, non-2xx status, a body that is not JSON, a
\* JSON body that is not an object, an object without a status field.
HealthFailureCase ==
    \/ lastHealth.out.kind \in {"refused", "timeout", "http_error", "bad_json"}
    \/ lastHealth.out.kind = "ok" /\ lastHealth.out.shape \in {"array", "null"}
    \/ lastHealth.out.kind = "ok" /\ lastHealth.out.shape = "object"
           /\ lastHealth.out.status.t = "missing"

\* C4: health_check of either client never raises, and returns False in each
\* of the failure cases.
C4_HealthCheckNeverRaises ==
    HealthChecked =>
        /\ ~lastHealth.raised
        /\ HealthFailureCase => lastHealth.value = BoolV(FALSE)

C4_Witness ==
    /\ lastHealth.op = "agent"
    /\ lastHealth.out.kind = "ok"
    /\ lastHealth.out.shape = "array"
    /\ lastHealth.value = BoolV(FALSE)

ReportsOk ==
    /\ lastHealth.out.kind = "ok"
    /\ lastHealth.out.shape = "object"
    /\ lastHealth.out.status = StrV("ok")

\* C5 as stated: the agent's health_check returns a boolean, True exactly
\* when status == "ok" and mcpReady is truthy; the meta-runner's returns True
\* exactly when status == "ok".
C5_HealthCheckReturnsBoolean ==
    /\ lastHealth.op = "agent" =>
        /\ lastHealth.value.t = "bool"
        /\ lastHealth.value = BoolV(TRUE) <=>
               (ReportsOk /\ Truthy(lastHealth.out.mcpReady))
    /\ lastHealth.op = "meta" => (lastHealth.value = BoolV(TRUE) <=> ReportsOk)

----------------------------------------------------------------------------
(* Properties of the voice client, checked under Spec.                     *)

\* C3 as stated: once a transcribe_audio call of the remote strategy has
\* ended, returned or raised, its temporary file is gone.
C3_TempFileRemoved == (stt_mode = "api" /\ sttLog # <<>>) => ~tmpLeft

SilentBuffer ==
    /\ audio.present
    /\ audio.samples # <<>>
    /\ MaxAbs(audio.samples) < SILENCE_THRESHOLD

SpokeOnly(m) == Len(spoken) = 1 /\ spoken[1].kind = "fixed" /\ spoken[1].msg = m

\* C6: a buffer whose peak is below the threshold never reaches the
\* recognizer or the backend; its cycle ends at the gate, having made the one
\* speak call "I didn't hear anything. Please try again.".
C6_SilenceNeverTranscribed ==
    /\ \A i \in 1..Len(sttLog) : sttLog[i].peak >= SILENCE_THRESHOLD
    /\ SilentBuffer =>
        /\ sttLog = <<>>
        /\ agentCalls = 0
        /\ pc \in {"gate", "cycle_end", "returned", "exited"}
        /\ pc = "cycle_end" => SpokeOnly(NOTHING_HEARD)

C6_Witness ==
    /\ pc = "cycle_end"
    /\ audio.present
    /\ audio.samples = <<0, 9>>
    /\ SpokeOnly(NOTHING_HEARD)
    /\ sttLog = <<>>
    /\ agentCalls = 0

TranscriptReturned == Len(sttLog) = 1 /\ ~sttLog[1].raised

\* C7: a returned transcript whose trimmed length is below 2 is never
\* dispatched; its cycle ends having made the one speak call "I didn't catch
\* that. Please speak clearly.".
C7_ShortTranscriptNeverDispatched ==
    (TranscriptReturned /\ Len(Strip(text)) < 2) =>
        /\ agentCalls = 0
        /\ lastSend.op = "none"
        /\ pc \in {"check_text", "cycle_end", "returned", "exited"}
        /\ pc = "cycle_end" => SpokeOnly(NOT_CAUGHT)

C7_Witness ==
    /\ pc = "cycle_end"
    /\ TranscriptReturned
    /\ text = <<"a">>
    /\ SpokeOnly(NOT_CAUGHT)
    /\ agentCalls = 0

\* Timeout, connection failure, non-2xx status, malformed body.
DispatchFailed ==
    /\ lastSend.op = "send"
    /\ \/ lastSend.out.kind \in {"timeout", "refused", "http_error", "bad_json"}
       \/ lastSend.out.shape \in {"array", "null"}
       \/ lastSend.raised

\* C8: when the dispatch fails, the cycle is over and its only speak call is
\* "Sorry, I couldn't reach the workout server.".
C8_DispatchFailureSpeaksConnectivity ==
    DispatchFailed =>
        /\ lastSend.raised
        /\ SpokeOnly(NOT_REACHED)
        /\ pc \in {"cycle_end", "returned", "exited"}

C8_Witness ==
    /\ pc = "cycle_end"
    /\ lastSend.op = "send"
    /\ lastSend.out.kind = "timeout"
    /\ SpokeOnly(NOT_REACHED)
    /\ agentCalls = 1

\* C9 as stated: a reply that is the empty string, missing or null ends the
\* cycle with the one speak call "Sorry, I didn't get a response.".
C9_EmptyReplyGenericApology ==
    ( /\ pc = "cycle_end"
      /\ lastSend.op = "send"
      /\ lastSend.out.kind = "ok"
      /\ lastSend.out.shape = "object"
      /\ \/ lastSend.out.reply.t \in {"missing", "null"}
         \/ lastSend.out.reply = StrR(<<>>) )
    => SpokeOnly(NO_RESPONSE)

\* C10 as stated: once the loop is entered, only KeyboardInterrupt ends it.
C10_OnlyInterruptEndsLoop ==
    (enteredLoop /\ pc \in {"returned", "raised", "exited"}) => endedBy = "interrupt"

\* A health check of the driving loop that came back falsy.
LoopHealthFailed == lastHealth.op = "agent" /\ ~Truthy(lastHealth.value)

CycleUntouched ==
    /\ audio = NoAudio
    /\ text = <<>>
    /\ spoken = <<>>
    /\ cues = <<>>
    /\ sttLog = <<>>
    /\ agentCalls = 0
    /\ lastSend.op = "none"

\* C11: run_interactive / run_continuous make exactly one health check,
\* before the first cycle; when it comes back false the loop is never
\* entered, nothing is recorded, transcribed, dispatched or spoken, the check
\* is not repeated and the function returns.
C11_OneHealthCheckGatesLoop ==
    /\ healthChecks <= 1
    /\ pc \in {"init", "health"} => healthChecks = 0
    /\ enteredLoop => healthChecks = 1
    /\ ~enteredLoop => CycleUntouched
    /\ LoopHealthFailed =>
        /\ ~enteredLoop
        /\ healthChecks = 1
        /\ endedBy = "unhealthy"
        /\ pc \in {"returned", "exited"}
        /\ exc = "none"

C11_Witness ==
    /\ pc = "exited"
    /\ LoopHealthFailed
    /\ lastHealth.out.kind = "ok"
    /\ lastHealth.out.status = StrV("ok")
    /\ lastHealth.out.mcpReady = BoolV(FALSE)
    /\ healthChecks = 1
    /\ CycleUntouched
    /\ exitStatus = 0

----------------------------------------------------------------------------
(* Further properties of the clients, checked under ClientSpec.            *)

SendCalled == lastSend.op \in {"send", "meta_send"}

\* C12: a send_message call of either client issues exactly one request,
\* and a timeout, connection failure, non-2xx status or malformed JSON body
\* reaches the caller as an exception.
C12_OneRequestPerSend ==
    SendCalled =>
        /\ lastSend.requests = 1
        /\ lastSend.out.kind \in {"timeout", "refused", "http_error", "bad_json"}
               => lastSend.raised

C12_Witness ==
    /\ lastSend.op = "send"
    /\ lastSend.out.kind = "timeout"
    /\ lastSend.requests = 1
    /\ lastSend.raised

C12_WitnessMeta ==
    /\ lastSend.op = "meta_send"
    /\ lastSend.out.kind = "bad_json"
    /\ lastSend.requests = 1
    /\ lastSend.raised

\* C13: reset_conversation makes no request and leaves no identifier stored,
\* a second reset in a row changes nothing, and a send_message with
\* reset=false that follows a reset carries no sessionId.
C13_ResetClearsLocallyIdempotent ==
    [][ /\ lastSend'.op = "reset" =>
            /\ session_id' = NoneV
            /\ lastSend'.requests = 0
        /\ (lastSend.op = "reset" /\ lastSend'.op = "reset") => session_id' = session_id
        /\ (lastSend.op = "reset" /\ lastSend'.op = "send" /\ ~lastSend'.reset) =>
            "sessionId" \notin DOMAIN lastSend'.payload ]_vars

C13_Witness ==
    /\ lastSend.op = "reset"
    /\ lastSend.pre = StrV("abc123")
    /\ session_id = NoneV
    /\ returned = NoneV

----------------------------------------------------------------------------
(* Further properties of the voice client, checked under Spec.             *)

\* The cues of a cycle whose capture raised: start, then error.
CaptureFailed == Len(cues) >= 2 /\ cues[2].cue = "error"

\* C14: when capture raises, the error cue is the last thing the cycle does:
\* no recognizer call, no backend call, no speech, and nothing propagates.  A
\* cue that fails to play changes nothing: after a capture that did not
\* raise the cycle is at the silence gate with its buffer, and no state in
\* which cues were attempted carries an exception.
C14_CaptureFailureAbortsCycle ==
    /\ CaptureFailed =>
        /\ Len(cues) = 2
        /\ cues[1].cue = "start"
        /\ audio = NoAudio
        /\ sttLog = <<>>
        /\ agentCalls = 0
        /\ lastSend.op = "none"
        /\ spoken = <<>>
        /\ pc \in {"cycle_end", "returned", "exited"}
    /\ pc = "gate" =>
        /\ audio.present
        /\ Len(cues) = 2
        /\ cues[1].cue = "start"
        /\ cues[2].cue = "stop"
    /\ cues # <<>> => (exc = "none" /\ endedBy # "exception")

C14_Witness ==
    /\ pc = "cycle_end"
    /\ CaptureFailed
    /\ ~cues[1].played
    /\ ~cues[2].played
    /\ spoken = <<>>
    /\ exc = "none"

C14_WitnessCueFailed ==
    /\ pc = "respond"
    /\ ~cues[1].played
    /\ ~cues[2].played

\* C15 as stated: a KeyboardInterrupt delivered at any point after run_* was
\* entered ends the loop cleanly: running is False and the exit status is 0.
C15_InterruptExitsCleanly ==
    endedBy = "interrupt" =>
        /\ ~running
        /\ pc \in {"returned", "exited"}
        /\ pc = "exited" => exitStatus = 0

ReplySpoken == \E i \in 1..Len(spoken) : spoken[i].kind = "reply"

\* C16: within a cycle the recognizer runs at most once and only on a
\* captured buffer that passed the silence gate, the backend is called at
\* most once and only with a returned transcript of at least 2 trimmed
\* characters, the reply is spoken only after a dispatch that succeeded with
\* a non-empty reply, and once a stage has failed or spoken no later stage
\* runs.
C16_StagesInOrderNoRetry ==
    /\ Len(sttLog) <= 1
    /\ agentCalls <= 1
    /\ Len(spoken) <= 1
    /\ pc \in {"record", "gate", "transcribe"} => (sttLog = <<>> /\ agentCalls = 0)
    /\ pc \in {"check_text", "dispatch"} => (TranscriptReturned /\ agentCalls = 0)
    /\ pc \in {"check_reply", "respond"} => (agentCalls = 1 /\ ~lastSend.raised)
    /\ sttLog # <<>> =>
        /\ sttLog[1].peak >= SILENCE_THRESHOLD
        /\ Len(cues) >= 2
        /\ cues[2].cue = "stop"
    /\ (sttLog # <<>> /\ sttLog[1].raised) => agentCalls = 0
    /\ agentCalls = 1 =>
        /\ TranscriptReturned
        /\ Len(Strip(text)) >= 2
        /\ lastSend.op = "send"
        /\ lastSend.message = text
    /\ ReplySpoken =>
        /\ agentCalls = 1
        /\ ~lastSend.raised
        /\ lastSend.out.reply.t = "str"
        /\ lastSend.out.reply.s # <<>>
        /\ spoken[1].body = lastSend.out.reply.s
    /\ spoken # <<>> => pc \in {"cycle_end", "returned", "exited"}

C16_Witness ==
    /\ pc = "cycle_end"
    /\ Len(sttLog) = 1
    /\ agentCalls = 1
    /\ ReplySpoken
    /\ spoken[1].audible
    /\ text = <<"a", "a">>
    /\ spoken[1].body = <<"a">>

----------------------------------------------------------------------------
(* Frame properties of ThorAgentClient.send_message, under ClientSpec.     *)

SendCalledAgent == lastSend.op = "send"

\* C17: a send_message that fails by timeout, connection error, non-2xx
\* status or a body that is not JSON leaves the stored identifier as it was,
\* and so does a successful reply that carries no sessionId.
C17_FailedSendKeepsSession ==
    SendCalledAgent =>
        /\ lastSend.out.kind \in {"timeout", "refused", "http_error", "bad_json"} =>
            /\ lastSend.raised
            /\ session_id = lastSend.pre
        /\ (~lastSend.raised /\ lastSend.out.sessionId.t = "missing") =>
            session_id = lastSend.pre

C17_Witness ==
    /\ SendCalledAgent
    /\ lastSend.out.kind = "http_error"
    /\ lastSend.raised
    /\ lastSend.pre = StrV("abc123")
    /\ session_id = StrV("abc123")

C17_WitnessNoSessionInReply ==
    /\ SendCalledAgent
    /\ ~lastSend.raised
    /\ lastSend.out.sessionId.t = "missing"
    /\ lastSend.pre = StrV("abc123")
    /\ session_id = StrV("abc123")

\* A send_message with reset=true that failed or whose reply had no sessionId.
ResetSendWithoutNewSession ==
    /\ lastSend.op = "send"
    /\ lastSend.reset
    /\ lastSend.pre # NoneV
    /\ (lastSend.raised \/ lastSend.out.sessionId.t = "missing")

\* C18 as stated: after a send_message with reset=true that failed or whose
\* reply carried no sessionId, the identifier stored before it is still
\* stored, and the next send_message with reset=false attaches it.
C18_ResetSendKeepsSession ==
    [][ /\ ResetSendWithoutNewSession' => session_id' = lastSend'.pre
        /\ (ResetSendWithoutNewSession /\ lastSend'.op = "send" /\ ~lastSend'.reset) =>
            /\ "sessionId" \in DOMAIN lastSend'.payload
            /\ lastSend'.payload.sessionId = lastSend.pre ]_vars

----------------------------------------------------------------------------
(* Calls to tts.speak in a cycle, under Spec.                              *)

\* record_audio returned a buffer: the cycle played the stop cue.
CaptureSucceeded == Len(cues) >= 2 /\ cues[2].cue = "stop"

\* The cycle ended in the outer handler without any call to tts.speak.
RaisedBeforeSpeaking ==
    /\ spoken = <<>>
    /\ Len(cues) = 3
    /\ cues[3].cue = "error"

\* The backend answered with a reply that is non-empty and all whitespace.
WhitespaceReply ==
    /\ agentCalls = 1
    /\ ~DispatchRaised(lastSend, lastSend.out)
    /\ reply.t = "str"
    /\ reply.s # <<>>
    /\ Strip(reply.s) = <<>>

OneSpeakCall ==
    /\ (pc = "cycle_end" /\ CaptureSucceeded) =>
        /\ Len(spoken) <= 1
        /\ spoken = <<>> =>
            /\ RaisedBeforeSpeaking
            /\ audio.present
            /\ PeakRaises(audio.samples)
        /\ spoken # <<>> =>
            \/ spoken[1].kind = "reply" /\ spoken[1].body = reply.s
            \/ spoken[1].kind = "fixed" /\ spoken[1].msg \in FixedMessages
    /\ (pc = "cycle_end" /\ CaptureSucceeded /\ WhitespaceReply) =>
        /\ Len(spoken) = 1
        /\ spoken[1].kind = "reply"
        /\ ~spoken[1].audible
        /\ Len(cues) = 2

\* C19 as stated: a cycle whose capture succeeded makes exactly one call to
\* tts.speak unless a stage raised unexpectedly, the text being the reply or
\* one of four fixed messages; a whitespace-only reply is spoken as a no-op.
C19_OneSpeakOfFourFixedMessages ==
    /\ OneSpeakCall
    /\ (pc = "cycle_end" /\ CaptureSucceeded /\ spoken # <<>>) =>
        Cardinality(FixedMessages) = 4

\* C19, amended: the same with the five fixed messages the code speaks.
C19_OneSpeakOfFiveFixedMessages ==
    /\ OneSpeakCall
    /\ (pc = "cycle_end" /\ CaptureSucceeded /\ spoken # <<>>) =>
        Cardinality(FixedMessages) = 5

C19_Witness ==
    /\ pc = "cycle_end"
    /\ CaptureSucceeded
    /\ WhitespaceReply
    /\ reply.s = <<" ", " ">>
    /\ Len(spoken) = 1
    /\ ~spoken[1].audible

C19_WitnessFixed(m) ==
    /\ pc = "cycle_end"
    /\ CaptureSucceeded
    /\ Len(spoken) = 1
    /\ spoken[1].kind = "fixed"
    /\ spoken[1].msg = m

C19_WitnessNothingHeard == C19_WitnessFixed(NOTHING_HEARD)
C19_WitnessNotUnderstood == C19_WitnessFixed(NOT_UNDERSTOOD)
C19_WitnessNotCaught == C19_WitnessFixed(NOT_CAUGHT)
C19_WitnessNotReached == C19_WitnessFixed(NOT_REACHED)
C19_WitnessNoResponse == C19_WitnessFixed(NO_RESPONSE)

----------------------------------------------------------------------------
(* A failing synthesizer, under Spec.                                      *)

\* The cycle's call to tts.speak raised: the text was not blank and nothing
\* was heard.
SpeakRaised ==
    /\ Len(spoken) = 1
    /\ ~spoken[1].audible
    /\ ~IsBlank(spoken[1])

\* C20: when tts.speak raises, whatever the text, process_voice_interaction
\* catches it, plays the error cue, runs no further stage and returns to the
\* driving loop; the identifier a completed dispatch stored is kept.
C20_SpeakFailureCaughtSessionKept ==
    SpeakRaised =>
        /\ pc \in {"cycle_end", "returned", "exited"}
        /\ exc = "none"
        /\ endedBy # "exception"
        /\ cues # <<>>
        /\ cues[Len(cues)].cue = "error"
        /\ Len(sttLog) <= 1
        /\ agentCalls <= 1
        /\ spoken[1].kind = "fixed" =>
            \/ spoken[1].msg = NOTHING_HEARD /\ sttLog = <<>> /\ agentCalls = 0
            \/ spoken[1].msg = NOT_UNDERSTOOD /\ Len(sttLog) = 1 /\ agentCalls = 0
            \/ spoken[1].msg = NOT_CAUGHT /\ Len(sttLog) = 1 /\ agentCalls = 0
            \/ spoken[1].msg \in {NOT_REACHED, NO_RESPONSE} /\ agentCalls = 1
        /\ agentCalls = 1 =>
            /\ lastSend.op = "send"
            /\ session_id = lastSend.session_id
            /\ HasSessionKey(lastSend.out) /\ ~ExchangeRaises(lastSend.out) =>
                session_id = lastSend.out.sessionId

C20_Witness ==
    /\ SpeakRaised
    /\ pc = "cycle_end"
    /\ spoken[1].kind = "reply"
    /\ cues[Len(cues)].cue = "error"
    /\ agentCalls = 1
    /\ lastSend.pre = NoneV
    /\ session_id = StrV("abc123")

C20_WitnessApology ==
    /\ SpeakRaised
    /\ pc = "cycle_end"
    /\ spoken[1].kind = "fixed"
    /\ spoken[1].msg = NOT_REACHED
    /\ cues[Len(cues)].cue = "error"

====
